---- MODULE Spec2Model ----
(***************************************************************************)
(* MQTT_manager of ds_mqtt_manager.h: the periodic routine() (hardware     *)
(* check, broker reconnection, status broadcast) and the inbound-message   *)
(* callback that routes a (topic, payload) pair to a prop's callback, a    *)
(* room-wide hook or the special callback.                                 *)
(*                                                                         *)
(* C strings are sequences of ASCII codes, so that strcmp, strcat and the  *)
(* byte arithmetic of the name derivation are computed, not assumed.       *)
(* millis() is the 32-bit unsigned millisecond counter; an unsigned long   *)
(* is held as two 16-bit halves <<high, low>>, and computed with carry and *)
(* borrow, because the model checker's integers are themselves 32-bit.     *)
(***************************************************************************)
EXTENDS Integers, Sequences, FiniteSets

(* ------------------------------------------------------------------ *)
(* Bounds of the model                                                 *)
(* ------------------------------------------------------------------ *)

\* The longest prop id of the instantiations that exercise the name derivation.
MaxIdLen == 3

\* The clock is observed for MaxSec seconds after construction.
MaxSec == 6

\* The longest time (ms) one blocking call (connect, the publish loop) takes.
MaxBusy == 1

(* ------------------------------------------------------------------ *)
(* Program constants                                                   *)
(* ------------------------------------------------------------------ *)

MQTT_CB_ACTIVATE == 0
MQTT_CB_FINISH == 1
MQTT_CB_RESET == 2
PROP_CB_TYPES_NUM == 3

\* unsigned long of the target: millis() and the differences of timestamps wrap.
ULONG_BITS == 32
HalfMod == 2 ^ (ULONG_BITS \div 2)

\* The unsigned long of value n, for 0 <= n < 2^31.
U32(n) == <<(n \div HalfMod) % HalfMod, n % HalfMod>>

\* a - b in unsigned long (modulo 2^32).
ULongSub(a, b) ==
    LET low == a[2] - b[2]
        borrow == IF low < 0 THEN 1 ELSE 0
    IN  <<(a[1] - b[1] - borrow) % HalfMod, low % HalfMod>>

\* a + n in unsigned long (modulo 2^32), for 0 <= n < 2^31.
ULongAdd(a, n) ==
    LET low == a[2] + (n % HalfMod)
    IN  <<(a[1] + (n \div HalfMod) + (low \div HalfMod)) % HalfMod, low % HalfMod>>

\* a > n, for an unsigned long a and 0 <= n < 2^16.
ULongGreater(a, n) == a[1] > 0 \/ a[2] > n

\* char is one byte.
CharMod == 256

\* "now - _lastReconnectAttempt > 5000"
ReconnectInterval == 5000
\* "millis() - lastTS <= 1000"
InfoInterval == 1000
\* "millis() - last_time_stamp > 1000"
HardwareLogInterval == 1000

\* String literals of the source, as ASCII codes.
S_er == <<47, 101, 114, 47>>                        \* "/er/"
S_cmd == <<47, 99, 109, 100>>                       \* "/cmd"
S_er_cmd == <<47, 101, 114, 47, 99, 109, 100>>      \* "/er/cmd"
S_info == <<47, 101, 114, 47, 114, 105, 100, 100, 108, 101, 115, 47, 105, 110, 102, 111>> \* "/er/riddles/info"
S_activate == <<97, 99, 116, 105, 118, 97, 116, 101>>   \* "activate"
S_finish == <<102, 105, 110, 105, 115, 104>>            \* "finish"
S_reset == <<114, 101, 115, 101, 116>>                  \* "reset"
S_start == <<115, 116, 97, 114, 116>>                   \* "start"
MQTT_STRSTATUS_READY == <<78, 111, 116, 32, 97, 99, 116, 105, 118, 97, 116, 101, 100>> \* "Not activated"
MQTT_STRSTATUS_ENABLED == <<65, 99, 116, 105, 118, 97, 116, 101, 100>>                 \* "Activated"
MQTT_STRSTATUS_FINISHED == <<70, 105, 110, 105, 115, 104, 101, 100>>                   \* "Finished"
J_open == <<123>>                                                       \* "{"
J_strId == <<34, 115, 116, 114, 73, 100, 34, 58, 34>>                   \* "\"strId\":\""
J_sep == <<34, 44, 32>>                                                 \* "\", "
J_strName == <<34, 115, 116, 114, 78, 97, 109, 101, 34, 58, 34>>        \* "\"strName\":\""
J_strStatus == <<34, 115, 116, 114, 83, 116, 97, 116, 117, 115, 34, 58, 34>> \* "\"strStatus\":\""
J_number == <<34, 110, 117, 109, 98, 101, 114, 34, 58, 34>>             \* "\"number\":\""
J_quote == <<34>>                                                       \* "\""
J_close == <<125>>                                                      \* "}"
CH_underscore == 95
CH_space == 32
CH_minus == 45
CH_zero == 48

(* ------------------------------------------------------------------ *)
(* The template arguments: the prop registry of an instantiation       *)
(* ------------------------------------------------------------------ *)

\* Ids of the example in the class comment, and a topic and a payload of no prop.
S_box == <<98, 111, 120>>                                           \* "box"
S_yammy_choco == <<121, 97, 109, 109, 121, 95, 99, 104, 111, 99, 111>> \* "yammy_choco"
S_mokka == <<95, 109, 111, 107, 107, 97>>                           \* "_mokka"
S_music == <<47, 101, 114, 47, 109, 117, 115, 105, 99, 47, 99, 109, 100>> \* "/er/music/cmd"
S_Reset == <<82, 101, 115, 101, 116>>                               \* "Reset"

AllCBs == [t \in 0..(PROP_CB_TYPES_NUM - 1) |-> TRUE]
NoCBs == [t \in 0..(PROP_CB_TYPES_NUM - 1) |-> FALSE]

\* An instantiation: props_STRIDS, mqtt_numbers, props_CBs (TRUE: non-null) per
\* prop, and whether special_CB is given. The ids of a registry are distinct.
ExampleConfig ==
    [ props |-> << [strId |-> S_box, number |-> 2, cbs |-> AllCBs],
                   [strId |-> S_yammy_choco, number |-> 5, cbs |-> AllCBs],
                   [strId |-> S_mokka, number |-> 8, cbs |-> AllCBs] >>,
      special |-> FALSE ]

SparseConfig ==
    [ props |-> << [strId |-> S_mokka, number |-> 3, cbs |-> NoCBs],
                   [strId |-> S_box, number |-> -1,
                    cbs |-> [AllCBs EXCEPT ![MQTT_CB_FINISH] = FALSE]] >>,
      special |-> TRUE ]

Configs == {ExampleConfig, SparseConfig}

MinimalConfig ==
    [ props |-> << [strId |-> S_box, number |-> 2, cbs |-> AllCBs] >>,
      special |-> FALSE ]

\* Instantiations with one prop, whose id is any string of at most MaxIdLen
\* characters out of 'a', 'z', '_' and 'B'; and the class comment's example.
IdChars == {97, 122, CH_underscore, 66}
Ids == UNION {[1..n -> IdChars] : n \in 1..MaxIdLen}
FormatConfigs ==
    {[props |-> << [strId |-> id, number |-> 1, cbs |-> AllCBs] >>, special |-> FALSE] :
        id \in Ids}
    \cup {ExampleConfig}

props_count(cfg) == Len(cfg.props)

(* ------------------------------------------------------------------ *)
(* Topic Router: the lambda given to setCallback                       *)
(* ------------------------------------------------------------------ *)

\* buf = "/er/" + props_STRIDS[i] + "/cmd"
PropTopic(cfg, i) == S_er \o cfg.props[i].strId \o S_cmd

\* One invoked callback. prop = 0 for the room-wide hooks and special_CB.
PropCall(i, t) == [cb |-> "prop", prop |-> i, type |-> t, topic |-> <<>>, payload |-> <<>>]
HookCall(name) == [cb |-> name, prop |-> 0, type |-> -1, topic |-> <<>>, payload |-> <<>>]
SpecialCall(topic, payload) ==
    [cb |-> "special_CB", prop |-> 0, type |-> -1, topic |-> topic, payload |-> payload]

\* "if ((*props_CBs[i])[t]) (*props_CBs[i])[t]();"
InvokeIfPresent(cfg, i, t) ==
    IF cfg.props[i].cbs[t] THEN <<PropCall(i, t)>> ELSE <<>>

\* Mutant of PropBranch: the lambda returns for every payload on a prop's topic,
\* so an unrecognised payload never reaches special_CB.
PropBranchAlwaysReturns(cfg, i, payload) ==
    IF payload = S_activate
    THEN [returned |-> TRUE, calls |-> InvokeIfPresent(cfg, i, MQTT_CB_ACTIVATE)]
    ELSE IF payload = S_finish
    THEN [returned |-> TRUE, calls |-> InvokeIfPresent(cfg, i, MQTT_CB_FINISH)]
    ELSE IF payload = S_reset
    THEN [returned |-> TRUE, calls |-> InvokeIfPresent(cfg, i, MQTT_CB_RESET)]
    ELSE [returned |-> TRUE, calls |-> <<>>]

\* Mutant of PropBranch: "if (cb) { cb(); return; }", the lambda returns only
\* when the callback is present.
PropBranchReturnIfInvoked(cfg, i, payload) ==
    IF payload = S_activate
    THEN [returned |-> cfg.props[i].cbs[MQTT_CB_ACTIVATE],
          calls |-> InvokeIfPresent(cfg, i, MQTT_CB_ACTIVATE)]
    ELSE IF payload = S_finish
    THEN [returned |-> cfg.props[i].cbs[MQTT_CB_FINISH],
          calls |-> InvokeIfPresent(cfg, i, MQTT_CB_FINISH)]
    ELSE IF payload = S_reset
    THEN [returned |-> cfg.props[i].cbs[MQTT_CB_RESET],
          calls |-> InvokeIfPresent(cfg, i, MQTT_CB_RESET)]
    ELSE [returned |-> FALSE, calls |-> <<>>]

\* The payload branches of a prop whose topic matched: the calls made, and
\* whether the lambda returned.
PropBranch(cfg, i, payload) ==
    IF payload = S_activate
    THEN [returned |-> TRUE, calls |-> InvokeIfPresent(cfg, i, MQTT_CB_ACTIVATE)]
    ELSE IF payload = S_finish
    THEN [returned |-> TRUE, calls |-> InvokeIfPresent(cfg, i, MQTT_CB_FINISH)]
    ELSE IF payload = S_reset
    THEN [returned |-> TRUE, calls |-> InvokeIfPresent(cfg, i, MQTT_CB_RESET)]
    ELSE [returned |-> FALSE, calls |-> <<>>]

\* "for (size_t i = 0; i < props_count; ++i)", from prop i on.
RECURSIVE PropLoop(_, _, _, _)
PropLoop(cfg, topic, payload, i) ==
    IF i > props_count(cfg)
    THEN [returned |-> FALSE, calls |-> <<>>]
    ELSE IF topic # PropTopic(cfg, i)
    THEN PropLoop(cfg, topic, payload, i + 1)
    ELSE LET b == PropBranch(cfg, i, payload)
         IN  IF b.returned THEN b ELSE PropLoop(cfg, topic, payload, i + 1)

\* Mutant of GlobalBranch: the two hooks are exchanged.
GlobalBranchSwapped(topic, payload) ==
    IF topic = S_er_cmd /\ payload = S_start
    THEN [returned |-> TRUE, calls |-> <<HookCall("er_onReset")>>]
    ELSE IF topic = S_er_cmd /\ payload = S_reset
    THEN [returned |-> TRUE, calls |-> <<HookCall("er_onStart")>>]
    ELSE [returned |-> FALSE, calls |-> <<>>]

\* "if (strcmp(topic, "/er/cmd") == 0) { ... }": the room-wide hooks.
GlobalBranch(topic, payload) ==
    IF topic = S_er_cmd /\ payload = S_start
    THEN [returned |-> TRUE, calls |-> <<HookCall("er_onStart")>>]
    ELSE IF topic = S_er_cmd /\ payload = S_reset
    THEN [returned |-> TRUE, calls |-> <<HookCall("er_onReset")>>]
    ELSE [returned |-> FALSE, calls |-> <<>>]

\* "if (special_CB) special_CB(topic, payload, length);"
SpecialBranch(cfg, topic, payload) ==
    IF cfg.special THEN <<SpecialCall(topic, payload)>> ELSE <<>>

\* Mutant of OnMessage: the "return" after a prop's callback is missing, so the
\* lambda goes on to the room-wide hooks and special_CB.
OnMessageNoReturn(cfg, topic, payload) ==
    LET p == PropLoop(cfg, topic, payload, 1)
        g == GlobalBranch(topic, payload)
    IN  p.calls \o (IF g.returned THEN g.calls ELSE SpecialBranch(cfg, topic, payload))

\* The whole lambda: the callbacks it invokes for one inbound message, in order.
OnMessage(cfg, topic, payload) ==
    LET p == PropLoop(cfg, topic, payload, 1)
        g == GlobalBranch(topic, payload)
    IN  IF p.returned THEN p.calls
        ELSE IF g.returned THEN g.calls
        ELSE SpecialBranch(cfg, topic, payload)

(* ------------------------------------------------------------------ *)
(* Message Formatter                                                   *)
(* ------------------------------------------------------------------ *)

\* itoa(number, strVal2, 10)
RECURSIVE Digits(_)
Digits(n) ==
    IF n < 10 THEN <<CH_zero + n>> ELSE Digits(n \div 10) \o <<CH_zero + (n % 10)>>

itoa(n) == IF n < 0 THEN <<CH_minus>> \o Digits(-n) ELSE Digits(n)

\* Mutant of UpperFirst: the -32 is applied to every character.
UpperFirstAll(s) ==
    IF Len(s) = 0
    THEN <<(0 - 32) % CharMod>>
    ELSE [k \in 1..Len(s) |-> (s[k] - 32) % CharMod]

\* "propERP_Name[0] -= 32;" on the copy of the id. The buffer is zeroed, so for
\* an empty id the byte written at [0] becomes the whole name.
UpperFirst(s) ==
    IF Len(s) = 0
    THEN <<(0 - 32) % CharMod>>
    ELSE [s EXCEPT ![1] = (s[1] - 32) % CharMod]

\* "while (*temp) { if (*temp == '_') *temp = ' '; ++temp; }"
UnderscoresToSpaces(s) ==
    [k \in 1..Len(s) |-> IF s[k] = CH_underscore THEN CH_space ELSE s[k]]

\* The name given to _msgInfo: first the -32, then the substitution.
ERPName(strId) == UnderscoresToSpaces(UpperFirst(strId))

\* _msgInfo: the content of msgData afterwards; the caller's buffer is zeroed,
\* so the early return leaves the empty string.
msgInfo(strId, ERP_name, strStatus, number) ==
    IF Len(strId) > 0 /\ strId[1] = CH_underscore
    THEN <<>>
    ELSE J_open \o J_strId \o strId \o J_sep
           \o J_strName \o ERP_name \o J_sep
           \o J_strStatus \o strStatus \o J_sep
           \o J_number \o itoa(number) \o J_quote
           \o J_close

(* ------------------------------------------------------------------ *)
(* Clock                                                               *)
(* ------------------------------------------------------------------ *)

\* The instants (ms after construction) at which the clock is observed: the
\* seconds 0, 1 and 5..MaxSec and the millisecond after each, so that
\* timestamps lie 999, 1000, 1001, 4999, 5000, 5001 ms apart.
ObservedSeconds == {0, 1} \cup (5..MaxSec)
TimePoints == {1000 * k + j : k \in ObservedSeconds, j \in {0, 1}}

\* millis() at the end of construction: soon after boot (the constructor
\* itself delays 1500 ms), and one second before the counter wraps.
StartTimes == {U32(2000), ULongSub(U32(0), U32(1000))}

\* millis() at instant t of a run whose construction ended at millis() = e.
millis(e, t) == ULongAdd(e, t)

\* The instants a blocking call started at t may return at.
After(t) == {u \in TimePoints : t <= u /\ u <= t + MaxBusy}

(* ------------------------------------------------------------------ *)
(* Link Monitor: _hardware_status                                      *)
(* ------------------------------------------------------------------ *)

HardwareStates == {"Ok", "EthernetNoHardware", "LinkOFF"}

\* last_time_stamp before its initialiser has run (the first call runs it).
Uninitialised == <<>>

\* Mutant of HardwareLogDue: "millis() - last_time_stamp >= 1000".
HardwareLogDueOffByOne(m, lts) ==
    ULongGreater(ULongSub(m, lts), HardwareLogInterval - 1)

\* "millis() - last_time_stamp > 1000"
HardwareLogDue(m, lts) == ULongGreater(ULongSub(m, lts), HardwareLogInterval)

\* Mutant of HardwareFault: "last_status = false;" is missing.
HardwareFaultKeepsStatus(line, m, lts) ==
    [ ret |-> -1,
      last_status |-> TRUE,
      last_time_stamp |-> IF HardwareLogDue(m, lts) THEN m ELSE lts,
      logs |-> IF HardwareLogDue(m, lts) THEN <<line>> ELSE <<>> ]

\* A fault branch: the line is printed and the stamp renewed when due.
HardwareFault(line, m, lts) ==
    [ ret |-> -1,
      last_status |-> FALSE,
      last_time_stamp |-> IF HardwareLogDue(m, lts) THEN m ELSE lts,
      logs |-> IF HardwareLogDue(m, lts) THEN <<line>> ELSE <<>> ]

\* hw: what Ethernet.hardwareStatus()/linkStatus() report; m: millis();
\* ls, lts: the statics last_status and last_time_stamp.
hardware_status(hw, m, ls, lts) ==
    LET lts0 == IF lts = Uninitialised THEN m ELSE lts
    IN  IF hw = "EthernetNoHardware"
        THEN HardwareFault("ethernet module missing", m, lts0)
        ELSE IF hw = "LinkOFF"
        THEN HardwareFault("LAN cable missing", m, lts0)
        ELSE [ ret |-> 0,
               last_status |-> TRUE,
               last_time_stamp |-> lts0,
               logs |-> IF ls = FALSE
                        THEN <<"ethernet hardware is restored">> ELSE <<>> ]

(* ------------------------------------------------------------------ *)
(* Broker Connection Supervisor: _check, _reconnect, _onConnected      *)
(* ------------------------------------------------------------------ *)

\* What _client.connect() does: it fails; it succeeds; or it succeeds and the
\* connection is lost again before _reconnect reads _client.connected().
ConnectResults == {"failed", "connected", "connectedThenLost"}

\* Mutant of onConnected: the subscription to "/er/cmd" is missing.
onConnectedPropsOnly(cfg) ==
    [i \in 1..props_count(cfg) |-> PropTopic(cfg, i)]

\* _onConnected: the topics subscribed, in order.
onConnected(cfg) ==
    [i \in 1..props_count(cfg) |-> PropTopic(cfg, i)] \o <<S_er_cmd>>

\* _startEthernet: the link-layer call it makes.
startEthernet == <<"Ethernet.begin">>

\* Mutant of onDisconnected: it does nothing.
onDisconnectedNothing == <<>>

\* _onDisconnected: the link-layer calls it makes.
onDisconnected == startEthernet

\* _reconnect with _client.connect() doing res.
reconnect(cfg, res) ==
    IF res # "failed"
    THEN [ connectOk |-> TRUE,
           logs |-> <<"MQTT: Connecting ...", "MQTT: Connected (id: CLIENT_NAME)">>,
           subs |-> onConnected(cfg),
           reinits |-> <<>>,
           connected |-> (res = "connected") ]
    ELSE [ connectOk |-> FALSE,
           logs |-> <<"MQTT: Connecting ...", "MQTT: Failed, Return Code: state">>,
           subs |-> <<>>,
           reinits |-> onDisconnected,
           connected |-> FALSE ]

\* Mutant of ReconnectDue: "now > _lastReconnectAttempt + 5000", which is wrong
\* once the sum wraps.
ReconnectDueRollover(now, lra) ==
    LET due == ULongAdd(lra, ReconnectInterval)
    IN  now[1] > due[1] \/ (now[1] = due[1] /\ now[2] > due[2])

\* Mutant of ReconnectDue: only the attempts before the first failure are made
\* (the timestamp is still the initial 0).
ReconnectDueFirstOnly(now, lra) ==
    lra = U32(0) /\ ULongGreater(ULongSub(now, lra), ReconnectInterval)

\* "now - _lastReconnectAttempt > 5000"
ReconnectDue(now, lra) == ULongGreater(ULongSub(now, lra), ReconnectInterval)

\* No inbound message.
NoMsg == [topic |-> <<>>, payload |-> <<>>]

\* _client.loop(): delivers msg, if any, to the callback.
clientLoop(cfg, msg) ==
    IF msg = NoMsg THEN <<>> ELSE OnMessage(cfg, msg.topic, msg.payload)

\* Mutant of AttemptStamp: the condition is inverted, the timestamp is reset
\* after a failure and kept after a success.
AttemptStampInverted(r, now) == IF r.connected THEN now ELSE U32(0)

\* "_lastReconnectAttempt = now; if (this->_reconnect()) _lastReconnectAttempt = 0;"
AttemptStamp(r, now) == IF r.connected THEN U32(0) ELSE now

\* What _check has done when it made no call: hs is the result of
\* _hardware_status, lra and conn are left as they were.
Idle(hs, conn, lra) ==
    [ hw |-> hs.ret, logs |-> hs.logs,
      last_status |-> hs.last_status,
      last_time_stamp |-> hs.last_time_stamp,
      lastReconnectAttempt |-> lra, connected |-> conn,
      loops |-> 0, msg |-> NoMsg, calls |-> <<>>,
      connects |-> 0, connectOk |-> FALSE,
      subs |-> <<>>, reinits |-> <<>> ]

\* Mutant of checkLinkOk: the "return" after loop() is missing, so a connected
\* client whose timer has run out reconnects as well.
checkLinkOkNoReturn(cfg, hs, m, conn, res, msg, lra) ==
    LET pumped == IF conn
                  THEN [Idle(hs, conn, lra) EXCEPT
                            !.loops = 1, !.msg = msg, !.calls = clientLoop(cfg, msg)]
                  ELSE Idle(hs, conn, lra)
    IN  IF ReconnectDue(m, lra)
        THEN LET r == reconnect(cfg, res)
             IN  [pumped EXCEPT
                      !.connects = 1,
                      !.connectOk = r.connectOk,
                      !.logs = hs.logs \o r.logs,
                      !.subs = r.subs,
                      !.reinits = r.reinits,
                      !.connected = r.connected,
                      !.lastReconnectAttempt = AttemptStamp(r, m)]
        ELSE pumped

\* _check after the hardware check: the pump when connected, else the
\* reconnection when it is due.
checkLinkOk(cfg, hs, m, conn, res, msg, lra) ==
    IF conn
    THEN [Idle(hs, conn, lra) EXCEPT
              !.loops = 1, !.msg = msg, !.calls = clientLoop(cfg, msg)]
    ELSE IF ReconnectDue(m, lra)
    THEN LET r == reconnect(cfg, res)
         IN  [Idle(hs, conn, lra) EXCEPT
                  !.connects = 1,
                  !.connectOk = r.connectOk,
                  !.logs = hs.logs \o r.logs,
                  !.subs = r.subs,
                  !.reinits = r.reinits,
                  !.connected = r.connected,
                  !.lastReconnectAttempt = AttemptStamp(r, m)]
    ELSE Idle(hs, conn, lra)

\* Mutant of checkAfterHardware: the result of _hardware_status is ignored.
checkIgnoringHardware(cfg, hs, m, conn, res, msg, lra) ==
    checkLinkOk(cfg, hs, m, conn, res, msg, lra)

\* _check at millis() = m: "if (_hardware_status()) return;", then the rest.
\* hs is the result of _hardware_status, conn whether the client is connected,
\* res what a connect would do, msg what loop() would deliver, lra the field
\* _lastReconnectAttempt. The result holds the new values and what was done.
checkAfterHardware(cfg, hs, m, conn, res, msg, lra) ==
    IF hs.ret # 0
    THEN Idle(hs, conn, lra)
    ELSE checkLinkOk(cfg, hs, m, conn, res, msg, lra)

\* _check: hw is the hardware state, ls/lts the statics of _hardware_status.
check(cfg, hw, m, conn, res, msg, lra, ls, lts) ==
    checkAfterHardware(cfg, hardware_status(hw, m, ls, lts), m, conn, res, msg, lra)

(* ------------------------------------------------------------------ *)
(* Status Broadcaster: _sendInfoLoop                                   *)
(* ------------------------------------------------------------------ *)

\* The state strings the application passes to routine().
StateVectors(cfg) ==
    { [i \in 1..props_count(cfg) |-> MQTT_STRSTATUS_READY],
      [i \in 1..props_count(cfg) |->
          IF i = 1 THEN MQTT_STRSTATUS_ENABLED ELSE MQTT_STRSTATUS_FINISHED] }

\* Mutant of InfoDue: "if (millis() - lastTS < 1000) return;".
InfoDueOffByOne(m, ts) == ULongGreater(ULongSub(m, ts), InfoInterval - 1)

\* "if (millis() - lastTS <= 1000) return;"
InfoDue(m, ts) == ~(~ULongGreater(ULongSub(m, ts), InfoInterval))

\* One iteration of the loop: the publish made for prop i. publish() returns
\* whether the client is connected.
PublishInfo(cfg, states, i, conn) ==
    [ prop |-> i,
      topic |-> S_info,
      payload |-> msgInfo(cfg.props[i].strId, ERPName(cfg.props[i].strId),
                          states[i], cfg.props[i].number),
      ok |-> conn ]

\* Mutant of sendInfoLoop: "if (!_client.publish(...)) break;", the loop stops
\* at the first publish that fails.
sendInfoLoopAbortOnFailure(cfg, states, m1, m2, conn, ts) ==
    IF ~InfoDue(m1, ts)
    THEN [batch |-> FALSE, pubs |-> <<>>, lastTS |-> ts]
    ELSE [ batch |-> TRUE,
           pubs |-> IF conn
                    THEN [i \in 1..props_count(cfg) |-> PublishInfo(cfg, states, i, conn)]
                    ELSE <<PublishInfo(cfg, states, 1, conn)>>,
           lastTS |-> m2 ]

\* _sendInfoLoop entered at millis() = m1, its loop finished at millis() = m2.
sendInfoLoop(cfg, states, m1, m2, conn, ts) ==
    IF ~InfoDue(m1, ts)
    THEN [batch |-> FALSE, pubs |-> <<>>, lastTS |-> ts]
    ELSE [ batch |-> TRUE,
           pubs |-> [i \in 1..props_count(cfg) |-> PublishInfo(cfg, states, i, conn)],
           lastTS |-> m2 ]

(* ------------------------------------------------------------------ *)
(* State                                                               *)
(* ------------------------------------------------------------------ *)

VARIABLES
    cfg,                    \* the template arguments of the instance
    epoch,                  \* millis() when the constructor returned
    time,                   \* ms since then (not wrapped)
    connected,              \* _client.connected()
    lastReconnectAttempt,   \* _lastReconnectAttempt
    lastTS,                 \* static lastTS of _sendInfoLoop
    last_status,            \* static last_status of _hardware_status
    last_time_stamp,        \* static last_time_stamp of _hardware_status
    ev,                     \* what the routine() that just returned did, and
                            \* history: the instants of its _check and of its
                            \* _sendInfoLoop, the ms since failedAt, whether a
                            \* connect had succeeded before, and the parity of
                            \* the calls in a row (so that a call is a step
                            \* even when it changes nothing else)
    failedAt,               \* history: instant of the last connect, if it failed
    publishedAt,            \* history: instant of the last call that published
    everConnected,          \* history: a connect has succeeded
    faultLoggedAt,          \* history: instant of the last fault line printed
    prevCheckFault          \* history: the last _hardware_status reported a fault

vars == <<cfg, epoch, time, connected, lastReconnectAttempt, lastTS,
          last_status, last_time_stamp, ev, failedAt, publishedAt, everConnected,
          faultLoggedAt, prevCheckFault>>

\* No instant yet.
Never == 0 - 1

\* ev when the last step was not a routine().
NoEv ==
    [ ran |-> FALSE, odd |-> FALSE, tCheck |-> Never, tSend |-> Never, sinceFail |-> Never,
      wasConnected |-> FALSE, reconnection |-> FALSE,
      sinceFaultLog |-> Never, prevFault |-> FALSE,
      hw |-> 0, logs |-> <<>>, loops |-> 0, msg |-> NoMsg, calls |-> <<>>,
      connects |-> 0, connectOk |-> FALSE, subs |-> <<>>, reinits |-> <<>>,
      batch |-> FALSE, pubs |-> <<>> ]

\* How many of the lines are line; how many are one of the two fault lines.
Occurrences(line, logs) == Cardinality({k \in 1..Len(logs) : logs[k] = line})
FaultLines(logs) ==
    Occurrences("ethernet module missing", logs) + Occurrences("LAN cable missing", logs)

\* The inbound messages a loop() may deliver.
PropTopics(c) == {PropTopic(c, i) : i \in 1..props_count(c)}
Messages(c) ==
    {[topic |-> t, payload |-> p] :
        t \in PropTopics(c), p \in {S_activate, S_finish, S_reset, S_Reset}}
    \cup {[topic |-> S_er_cmd, payload |-> p] : p \in {S_start, S_reset, S_activate}}
    \cup {[topic |-> S_music, payload |-> S_start]}

\* After construction: "_lastReconnectAttempt(0)", "static unsigned long
\* lastTS = 0", "static bool last_status = true"; not connected.
InitOf(configs) ==
    /\ cfg \in configs
    /\ epoch \in StartTimes
    /\ time = 0
    /\ connected = FALSE
    /\ lastReconnectAttempt = U32(0)
    /\ lastTS = U32(0)
    /\ last_status = TRUE
    /\ last_time_stamp = Uninitialised
    /\ ev = NoEv
    /\ failedAt = Never
    /\ publishedAt = Never
    /\ everConnected = FALSE
    /\ faultLoggedAt = Never
    /\ prevCheckFault = FALSE

Init == InitOf(Configs)

(* ------------------------------------------------------------------ *)
(* Actions                                                             *)
(* ------------------------------------------------------------------ *)

\* routine(props_states): _check(), then _sendInfoLoop(props_states). t1 is the
\* instant _check has returned, t2 the instant the publish loop has finished.
RoutineWith(hw, res, msg, states, t1, t2) ==
    \E c \in {check(cfg, hw, millis(epoch, time), connected, res, msg,
                   lastReconnectAttempt, last_status, last_time_stamp)} :
    \E s \in {sendInfoLoop(cfg, states, millis(epoch, t1), millis(epoch, t2),
                          c.connected, lastTS)} :
        /\ connected' = c.connected
        /\ lastReconnectAttempt' = c.lastReconnectAttempt
        /\ last_status' = c.last_status
        /\ last_time_stamp' = c.last_time_stamp
        /\ lastTS' = s.lastTS
        /\ time' = IF s.batch THEN t2 ELSE t1
        /\ ev' = [ ran |-> TRUE, odd |-> ~ev.odd, tCheck |-> time, tSend |-> t1,
                   sinceFail |-> IF failedAt = Never THEN Never ELSE time - failedAt,
                   wasConnected |-> connected,
                   reconnection |-> everConnected,
                   sinceFaultLog |-> IF faultLoggedAt = Never THEN Never
                                     ELSE time - faultLoggedAt,
                   prevFault |-> prevCheckFault,
                   hw |-> c.hw, logs |-> c.logs, loops |-> c.loops,
                   msg |-> c.msg, calls |-> c.calls,
                   connects |-> c.connects, connectOk |-> c.connectOk,
                   subs |-> c.subs, reinits |-> c.reinits,
                   batch |-> s.batch, pubs |-> s.pubs ]
        /\ failedAt' = IF c.connects = 0 THEN failedAt
                       ELSE IF c.connectOk THEN Never ELSE time
        /\ publishedAt' = IF s.batch THEN t1 ELSE publishedAt
        /\ everConnected' = (everConnected \/ c.connectOk)
        /\ faultLoggedAt' = IF FaultLines(c.logs) = 0 THEN faultLoggedAt ELSE time
        /\ prevCheckFault' = (c.hw # 0)
        /\ UNCHANGED <<cfg, epoch>>

\* The inputs a call reads: a connect result only when it connects, a message
\* only when it pumps, the state strings only when it publishes. Only a connect
\* and the publish loop block.
WillConnect(hw) ==
    /\ hw = "Ok"
    /\ ~connected
    /\ ReconnectDue(millis(epoch, time), lastReconnectAttempt)

WillPump(hw) == hw = "Ok" /\ connected

WillPublish(t1) == InfoDue(millis(epoch, t1), lastTS)

Routine ==
    \E hw \in HardwareStates :
      \E res \in IF WillConnect(hw) THEN ConnectResults ELSE {"failed"},
         msg \in IF WillPump(hw) THEN Messages(cfg) \cup {NoMsg} ELSE {NoMsg},
         t1 \in IF WillConnect(hw) THEN After(time) ELSE {time} :
        \E states \in IF WillPublish(t1) THEN StateVectors(cfg)
                       ELSE {[i \in 1..props_count(cfg) |-> MQTT_STRSTATUS_READY]},
           t2 \in IF WillPublish(t1) THEN After(t1) ELSE {t1} :
            RoutineWith(hw, res, msg, states, t1, t2)

\* Time passes between two calls of routine().
Tick ==
    /\ \E t \in TimePoints : t > time /\ time' = t
    /\ ev' = NoEv
    /\ UNCHANGED <<cfg, epoch, connected, lastReconnectAttempt, lastTS,
                   last_status, last_time_stamp, failedAt, publishedAt,
                   everConnected, faultLoggedAt, prevCheckFault>>

\* The broker or the network drops the connection.
TransportLoss ==
    /\ connected
    /\ connected' = FALSE
    /\ ev' = NoEv
    /\ UNCHANGED <<cfg, epoch, time, lastReconnectAttempt, lastTS,
                   last_status, last_time_stamp, failedAt, publishedAt,
                   everConnected, faultLoggedAt, prevCheckFault>>

Next == Routine \/ Tick \/ TransportLoss

Spec == Init /\ [][Next]_vars

\* An instance with one prop, for the runs that check liveness.
LiveInit == InitOf({MinimalConfig})

\* routine() is called from the sketch's loop() for ever, and the clock runs.
LiveSpec == LiveInit /\ [][Next]_vars /\ WF_vars(Routine) /\ WF_vars(Tick)

\* The first calls of routine() of the instantiations of FormatConfigs, one
\* right after the other.
FormatInit == InitOf(FormatConfigs)
FormatSpec == FormatInit /\ [][Routine]_vars

(* ------------------------------------------------------------------ *)
(* Properties                                                          *)
(* ------------------------------------------------------------------ *)

\* The last observed instant.
Horizon == 1000 * MaxSec + 1

\* The payload that selects callback type t.
PayloadOf(t) ==
    IF t = MQTT_CB_ACTIVATE THEN S_activate
    ELSE IF t = MQTT_CB_FINISH THEN S_finish
    ELSE S_reset

\* The message with payload PayloadOf(t) on prop i's command topic.
CommandFor(i, t) == [topic |-> S_er \o cfg.props[i].strId \o S_cmd, payload |-> PayloadOf(t)]

\* C1: a message on prop i's command topic with payload activate, finish or
\* reset, whose callback is present, invokes exactly that callback of prop i,
\* once, and nothing else (no other prop, no room-wide hook, no special_CB).
C1_RouterPrecedence ==
    \A i \in 1..props_count(cfg), t \in 0..(PROP_CB_TYPES_NUM - 1) :
        (ev.ran /\ ev.loops = 1 /\ ev.msg = CommandFor(i, t) /\ cfg.props[i].cbs[t])
            => ev.calls = <<[cb |-> "prop", prop |-> i, type |-> t,
                             topic |-> <<>>, payload |-> <<>>]>>

\* C1 witness: "reset", also a room-wide command, arrives on a prop's topic of an
\* instance with special_CB, and only that prop's reset callback has run.
C1_Witness ==
    /\ ev.ran /\ cfg.special
    /\ \E i \in 1..props_count(cfg) :
        /\ ev.msg = CommandFor(i, MQTT_CB_RESET)
        /\ Len(ev.calls) = 1 /\ ev.calls[1].cb = "prop" /\ ev.calls[1].prop = i

\* C2: after a failed connect attempt at instant T, no check() that runs before
\* T + 5000 ms issues a connect attempt.
C2_NoAttemptBeforeInterval ==
    (ev.ran /\ ev.connects = 1 /\ ev.sinceFail # Never)
        => ev.sinceFail >= ReconnectInterval

\* C2 witness: a check() with the link Ok and the client disconnected, 4999 ms
\* after a failed attempt, has issued no attempt.
C2_Witness ==
    /\ ev.ran /\ ev.hw = 0 /\ ~ev.wasConnected
    /\ ev.sinceFail = ReconnectInterval - 1
    /\ ev.connects = 0

\* C3 (as amended): after a failed connect attempt at instant T, with the link
\* Ok and the client still disconnected, a check() that runs more than 5000 ms
\* after T issues exactly one connect attempt.
C3_AttemptAfterInterval ==
    (ev.ran /\ ev.hw = 0 /\ ~ev.wasConnected
        /\ ev.sinceFail # Never /\ ev.sinceFail > ReconnectInterval)
        => ev.connects = 1

\* C3 as stated: the same for a check() that runs at least 5000 ms after T,
\* exactly 5000 ms included.
C3_AsStated ==
    (ev.ran /\ ev.hw = 0 /\ ~ev.wasConnected
        /\ ev.sinceFail # Never /\ ev.sinceFail >= ReconnectInterval)
        => ev.connects = 1

\* C3 witness: a check() 5001 ms after a failed attempt has issued one.
C3_Witness ==
    ev.ran /\ ev.sinceFail = ReconnectInterval + 1 /\ ev.connects = 1

\* C4: a check() in which _hardware_status reports a fault issues no connect, no
\* subscribe, no loop() and no Ethernet.begin, and leaves _lastReconnectAttempt
\* as it was.
C4_FaultDoesNothing ==
    [][(ev'.ran /\ ev'.hw # 0)
        => /\ ev'.connects = 0 /\ ev'.subs = <<>> /\ ev'.loops = 0
           /\ ev'.reinits = <<>>
           /\ lastReconnectAttempt' = lastReconnectAttempt]_vars

\* C4 witness: a fault was reported by a check() of a disconnected client whose
\* reconnection was due (more than 5000 ms after a failed attempt).
C4_Witness ==
    /\ ev.ran /\ ev.hw # 0 /\ ~ev.wasConnected
    /\ ev.sinceFail # Never /\ ev.sinceFail > ReconnectInterval
    /\ ev.connects = 0

\* C5: while the client is disconnected and more than 5000 ms of observed time
\* remain, a later check() issues a connect attempt, unless a check() finds the
\* link faulty; this from every state, whatever attempts have failed before.
C5_RetriesNeverStop ==
    (~connected /\ ~ev.ran /\ time + ReconnectInterval < Horizon)
        ~> (ev.ran /\ (ev.connects = 1 \/ ev.hw # 0))

\* C5 witness: a connect attempt has failed after an earlier failed attempt.
C5_Witness ==
    ev.ran /\ ev.connects = 1 /\ ~ev.connectOk /\ ev.sinceFail # Never

\* C6: a successful connect attempt is followed, within the same check(), by one
\* subscribe per prop command topic, in registry order, and one for "/er/cmd";
\* a check() without a successful connect subscribes to nothing.
C6_SubscribeOnConnect ==
    ev.ran =>
        IF ev.connectOk
        THEN /\ Len(ev.subs) = props_count(cfg) + 1
             /\ \A i \in 1..props_count(cfg) :
                    ev.subs[i] = S_er \o cfg.props[i].strId \o S_cmd
             /\ ev.subs[props_count(cfg) + 1] = S_er_cmd
        ELSE ev.subs = <<>>

\* C6 witness: a reconnection (a connect had succeeded before) has subscribed.
C6_Witness ==
    ev.ran /\ ev.connectOk /\ ev.reconnection /\ Len(ev.subs) = props_count(cfg) + 1

\* C7: a failed connect attempt calls Ethernet.begin exactly once within the
\* same check(); a check() without a failed attempt never calls it.
C7_ReinitOnFailure ==
    ev.ran =>
        IF ev.connects = 1 /\ ~ev.connectOk
        THEN ev.reinits = <<"Ethernet.begin">>
        ELSE ev.reinits = <<>>

\* C7 witness: a failed attempt, with its one Ethernet.begin.
C7_Witness ==
    ev.ran /\ ev.connects = 1 /\ ~ev.connectOk /\ Len(ev.reinits) = 1

\* C8: a _sendInfoLoop call at most 1000 ms after a call that published a batch
\* publishes nothing and leaves lastTS as it was.
C8_BroadcastRateLimit ==
    [][(ev'.ran /\ publishedAt # Never /\ ev'.tSend - publishedAt <= InfoInterval)
        => /\ ~ev'.batch /\ ev'.pubs = <<>>
           /\ lastTS' = lastTS]_vars

\* C8 witness: a call exactly 1000 ms after a publishing call has published
\* nothing.
C8_Witness ==
    /\ ev.ran /\ ~ev.batch
    /\ publishedAt # Never /\ ev.tSend - publishedAt = InfoInterval

\* C9 as stated: no publish is made for a prop whose stringId begins with '_'.
C9_NoPublishForPrefixed ==
    \A k \in 1..Len(ev.pubs) :
        cfg.props[ev.pubs[k].prop].strId[1] # CH_underscore

\* C10 as stated: no publish is made for a prop whose number is negative.
C10_NoPublishForNegative ==
    \A k \in 1..Len(ev.pubs) :
        cfg.props[ev.pubs[k].prop].number >= 0

\* The props a status message is meant for: no '_' prefix, number not negative.
Eligible(i) ==
    /\ ~(Len(cfg.props[i].strId) > 0 /\ cfg.props[i].strId[1] = CH_underscore)
    /\ cfg.props[i].number >= 0

\* The props of the publishes of the last _sendInfoLoop, in the order made.
PublishedProps == [k \in 1..Len(ev.pubs) |-> ev.pubs[k].prop]

\* C11: a _sendInfoLoop that passes the rate limit publishes once for every
\* eligible prop, in registry order, whether the publishes succeed or fail.
C11_OnePublishPerProp ==
    (ev.ran /\ ev.batch) =>
        /\ \A i \in 1..props_count(cfg) :
              Eligible(i) => Cardinality({k \in 1..Len(ev.pubs) : ev.pubs[k].prop = i}) = 1
        /\ \A k, l \in 1..Len(ev.pubs) :
              (k < l /\ Eligible(PublishedProps[k]) /\ Eligible(PublishedProps[l]))
                  => PublishedProps[k] < PublishedProps[l]

\* C11 witness: a batch of a disconnected client: the publish for the first
\* eligible prop has failed, and the one for a later eligible prop was made.
C11_Witness ==
    /\ ev.ran /\ ev.batch
    /\ \E k, l \in 1..Len(ev.pubs) :
          /\ k < l /\ Eligible(ev.pubs[k].prop) /\ Eligible(ev.pubs[l].prop)
          /\ ~ev.pubs[k].ok /\ ~ev.pubs[l].ok

\* C12: "/er/cmd" with payload "start" invokes er_onStart once and nothing
\* else; with payload "reset", er_onReset once and nothing else.
C12_RoomWideHooks ==
    (ev.ran /\ ev.loops = 1 /\ ev.msg.topic = S_er_cmd) =>
        /\ ev.msg.payload = S_start => ev.calls = <<HookCall("er_onStart")>>
        /\ ev.msg.payload = S_reset => ev.calls = <<HookCall("er_onReset")>>

\* C12 witness: "reset" on "/er/cmd" of an instance with special_CB and with a
\* prop that has a reset callback: only er_onReset has run.
C12_Witness ==
    /\ ev.ran /\ cfg.special
    /\ \E i \in 1..props_count(cfg) : cfg.props[i].cbs[MQTT_CB_RESET]
    /\ ev.msg = [topic |-> S_er_cmd, payload |-> S_reset]
    /\ Len(ev.calls) = 1 /\ ev.calls[1].cb = "er_onReset"

\* A message that matched nothing: another topic, "/er/cmd" with a payload
\* other than start/reset, a prop topic with a payload other than
\* activate/finish/reset.
Unmatched(msg) ==
    /\ msg # NoMsg
    /\ \/ msg.topic \notin PropTopics(cfg) \cup {S_er_cmd}
       \/ msg.topic = S_er_cmd /\ msg.payload \notin {S_start, S_reset}
       \/ msg.topic \in PropTopics(cfg)
            /\ msg.payload \notin {S_activate, S_finish, S_reset}

\* C13: a message that matched nothing invokes special_CB once, with the raw
\* topic and payload, when special_CB is given, and no callback otherwise.
C13_UnmatchedToSpecial ==
    (ev.ran /\ ev.loops = 1 /\ Unmatched(ev.msg)) =>
        ev.calls = IF cfg.special
                   THEN <<[cb |-> "special_CB", prop |-> 0, type |-> -1,
                           topic |-> ev.msg.topic, payload |-> ev.msg.payload]>>
                   ELSE <<>>

\* C13 witness: "Reset" on a prop's topic has been given to special_CB.
C13_Witness ==
    /\ ev.ran /\ ev.msg.topic \in PropTopics(cfg) /\ ev.msg.payload = S_Reset
    /\ Len(ev.calls) = 1 /\ ev.calls[1].cb = "special_CB"

\* C14: a check() prints at most one fault line, and only more than 1000 ms
\* after the check() that printed the fault line before it.
C14_FaultLogRateLimit ==
    ev.ran =>
        /\ FaultLines(ev.logs) <= 1
        /\ (FaultLines(ev.logs) = 1 /\ ev.sinceFaultLog # Never)
              => ev.sinceFaultLog > HardwareLogInterval

\* C14 witness: a fault line printed 1001 ms after the one before it.
C14_Witness ==
    /\ ev.ran /\ ev.hw # 0 /\ ev.prevFault
    /\ FaultLines(ev.logs) = 1 /\ ev.sinceFaultLog = HardwareLogInterval + 1

\* C15: a check() prints "ethernet hardware is restored" once when its status
\* is Ok and the status of the check() before it was a fault, and not at all
\* otherwise (the first check() included).
C15_RestoredOnce ==
    ev.ran =>
        Occurrences("ethernet hardware is restored", ev.logs)
            = IF ev.hw = 0 /\ ev.prevFault THEN 1 ELSE 0

\* C15 witness: the line was printed by an Ok check() that followed a fault.
C15_Witness ==
    /\ ev.ran /\ ev.hw = 0 /\ ev.prevFault
    /\ Occurrences("ethernet hardware is restored", ev.logs) = 1

\* The display name of an id: every '_' a space, the first character - 32.
DisplayName(id) ==
    [k \in 1..Len(id) |->
        IF k = 1 THEN id[1] - 32
        ELSE IF id[k] = CH_underscore THEN CH_space ELSE id[k]]

\* The value of the strName field of a status message for prop id, with the
\* quote and separator that end it.
StrNameField(payload, id) ==
    LET first == Len(J_open) + Len(J_strId) + Len(id) + Len(J_sep) + Len(J_strName) + 1
    IN  SubSeq(payload, first, first + Len(id) + Len(J_sep) - 1)

S_Yammy_choco == <<89, 97, 109, 109, 121, 32, 99, 104, 111, 99, 111>> \* "Yammy choco"

\* C16: the strName of the status message of a prop whose id begins with a
\* lowercase letter is the id with every '_' replaced by ' ' and only the first
\* character uppercased.
C16_DisplayName ==
    \A k \in 1..Len(ev.pubs) :
        LET id == cfg.props[ev.pubs[k].prop].strId
        IN  (Len(id) > 0 /\ id[1] \in 97..122)
                => StrNameField(ev.pubs[k].payload, id) = DisplayName(id) \o J_sep

\* C16 witness: the message published for "yammy_choco" names it "Yammy choco".
C16_Witness ==
    \E k \in 1..Len(ev.pubs) :
        /\ cfg.props[ev.pubs[k].prop].strId = S_yammy_choco
        /\ StrNameField(ev.pubs[k].payload, S_yammy_choco) = S_Yammy_choco \o J_sep

\* The message is activate, finish or reset on the topic of a prop that has no
\* callback for it.
CommandWithoutCallback ==
    \E i \in 1..props_count(cfg), t \in 0..(PROP_CB_TYPES_NUM - 1) :
        ev.msg = CommandFor(i, t) /\ ~cfg.props[i].cbs[t]

\* C17 (as amended): activate, finish or reset on the topic of a prop whose
\* callback for it is absent invokes nothing: no prop callback, no room-wide
\* hook and no special_CB.
C17_AbsentCallbackDrops ==
    (ev.ran /\ ev.loops = 1 /\ CommandWithoutCallback) => ev.calls = <<>>

\* C17 as stated: such a message is given to special_CB when special_CB is
\* configured, and no prop callback or room-wide hook is invoked.
C17_AsStated ==
    (ev.ran /\ ev.loops = 1 /\ CommandWithoutCallback) =>
        ev.calls = IF cfg.special
                   THEN <<[cb |-> "special_CB", prop |-> 0, type |-> -1,
                           topic |-> ev.msg.topic, payload |-> ev.msg.payload]>>
                   ELSE <<>>

\* C17 witness: "finish" for a prop without a finish callback, of an instance
\* with special_CB, and nothing was invoked.
C17_Witness ==
    /\ ev.ran /\ ev.loops = 1 /\ cfg.special
    /\ \E i \in 1..props_count(cfg) :
          ev.msg = CommandFor(i, MQTT_CB_FINISH) /\ ~cfg.props[i].cbs[MQTT_CB_FINISH]
    /\ ev.calls = <<>>

\* C18 as stated, for the checks before any connect attempt was made: with the
\* link Ok and the client disconnected, the check() issues a connect attempt.
C18_StartupAttempt ==
    (ev.ran /\ ev.hw = 0 /\ ~ev.wasConnected
        /\ ~ev.reconnection /\ ev.sinceFail = Never)
        => ev.connects = 1

\* C19 as stated: once a connect has succeeded and _reconnect has returned true
\* (the timestamp is reset), the first check() that finds the client
\* disconnected, with the link Ok, issues a connect attempt.
C19_ImmediateAfterLoss ==
    [][(ev'.ran /\ ev'.hw = 0 /\ ~connected
          /\ everConnected /\ failedAt = Never /\ lastReconnectAttempt = U32(0))
        => ev'.connects = 1]_vars

\* C20: a check() with the link Ok and the client connected calls loop() once,
\* issues no connect, no subscribe and no Ethernet.begin, and leaves
\* _lastReconnectAttempt as it was; callbacks run only in a check() that called
\* loop().
C20_ConnectedOnlyPumps ==
    [][ev'.ran =>
        /\ (ev'.hw = 0 /\ connected)
              => /\ ev'.loops = 1
                 /\ ev'.connects = 0 /\ ev'.subs = <<>> /\ ev'.reinits = <<>>
                 /\ lastReconnectAttempt' = lastReconnectAttempt
        /\ ev'.calls # <<>> => (ev'.loops = 1 /\ ev'.hw = 0 /\ connected)]_vars

\* C20 witness: a connected client's check(), more than 5000 ms after the last
\* attempt was stamped, has pumped, delivered a message and not connected.
C20_Witness ==
    /\ ev.ran /\ ev.hw = 0 /\ ev.wasConnected
    /\ ReconnectDue(millis(epoch, ev.tCheck), lastReconnectAttempt)
    /\ ev.loops = 1 /\ ev.calls # <<>> /\ ev.connects = 0

====
